---- MODULE Spec2Model ----
(***************************************************************************)
(* Model of the bug-fixer agent: the ContextStore (memory.py), the         *)
(* permission managers and Tools (tools.py, web_app/backend/server.py)     *)
(* and the BugFixerAgent orchestrator (agent.py), driven by the CLI loop   *)
(* or by the web handlers /chat and /permission/respond.                   *)
(*                                                                         *)
(* Texts are modelled by a tag (which text it is) and the character counts *)
(* the code computes with (len, and pad = the leading/trailing whitespace  *)
(* that str.strip() removes).  Every Python function is an operator on the *)
(* session record s; an action applies one handler to the current state.   *)
(***************************************************************************)
EXTENDS Integers, Sequences, FiniteSets, TLC

\* ---------------------------------------------------------------- bounds
\* Handler calls (CLI loop iterations / HTTP requests) in one run.
MaxSteps == 4
\* Web calls of one session that may overlap.
MaxHandlers == 3
\* add_turn calls in one run of the ContextStore-only specification.
MaxAppends == 5
\* Invalid answers typed at one interactive permission prompt.
MaxReprompts == 1

\* ------------------------------------------------------- program constants
\* ContextStore(token_limit=8000) as built by main() and SessionState.
AgentTokenLimit == 8000
\* Compacted lines are cut to this many characters.
LineCut == 180
\* Exit code of a rejected bash call.
RejectedCode == 126

VARIABLES
    mode,           \* "cli" | "web" | "mem" | "tools": which driver owns the objects
    token_limit,    \* ContextStore.token_limit
    turns,          \* ContextStore.turns
    summary,        \* ContextStore.summary, as its sequence of lines
    bugs,           \* ContextStore.bugs
    bug_counter,    \* ContextStore._bug_counter
    active_bug_id,  \* BugFixerAgent.active_bug_id (0 = None)
    always_allow,   \* PermissionManager.always_allow
    pending,        \* WebPermissionManager.pending (NoPending = None)
    last_decision,  \* WebPermissionManager.last_decision ("none" = None)
    next_uuid,      \* the next value uuid.uuid4() returns
    calc,           \* content of demo_repo/src/calculator.py
    test,           \* content of demo_repo/tests/test_calculator.py
    running,        \* the CLI loop / server process is alive
    resp,           \* what the last handler call returned to its caller
    trace,          \* the effects of the last handler call, in order
    appended,       \* every turn ever passed to add_turn, in order
    steps,          \* handler calls so far
    handlers        \* the web handler calls under way, when they overlap

vars == <<mode, token_limit, turns, summary, bugs, bug_counter, active_bug_id,
          always_allow, pending, last_decision, next_uuid, calc, test,
          running, resp, trace, appended, steps, handlers>>

Max(a, b) == IF a >= b THEN a ELSE b
Min(a, b) == IF a <= b THEN a ELSE b

\* The session as one record, so that the code's functions compose.
Cur ==
    [mode |-> mode, token_limit |-> token_limit, turns |-> turns,
     summary |-> summary, bugs |-> bugs, bug_counter |-> bug_counter,
     active_bug_id |-> active_bug_id, always_allow |-> always_allow,
     pending |-> pending, last_decision |-> last_decision,
     next_uuid |-> next_uuid, calc |-> calc, test |-> test,
     running |-> running, resp |-> resp, trace |-> trace,
     appended |-> appended, steps |-> steps, handlers |-> handlers]

Commit(s) ==
    /\ mode' = s.mode
    /\ token_limit' = s.token_limit
    /\ turns' = s.turns
    /\ summary' = s.summary
    /\ bugs' = s.bugs
    /\ bug_counter' = s.bug_counter
    /\ active_bug_id' = s.active_bug_id
    /\ always_allow' = s.always_allow
    /\ pending' = s.pending
    /\ last_decision' = s.last_decision
    /\ next_uuid' = s.next_uuid
    /\ calc' = s.calc
    /\ test' = s.test
    /\ running' = s.running
    /\ resp' = s.resp
    /\ trace' = s.trace
    /\ appended' = s.appended
    /\ steps' = s.steps
    /\ handlers' = s.handlers

\* One effect of a handler call, recorded in trace.
\* arg is a text (a path, a command, a message tag), n a number (1 = true).
Ev(kind, arg, n) == [kind |-> kind, arg |-> arg, n |-> n]
LogN(s, kind, arg, n) == [s EXCEPT !.trace = Append(@, Ev(kind, arg, n))]
Log(s, kind, arg) == LogN(s, kind, arg, 0)

\* ------------------------------------------------------------ memory.py
Text(tag, len, pad) == [text |-> tag, len |-> len, pad |-> pad]
Turn(role, content) == [role |-> role, content |-> content]

RoleLen(role) == IF role = "user" THEN 4 ELSE 5

approx_tokens(len) == Max(1, len \div 4)

RECURSIVE SumLen(_, _)
\* Character count of "\n".join(items), each item of length each(item).
SumLen(items, i) ==
    IF i > Len(items) THEN 0
    ELSE items[i] + (IF i < Len(items) THEN 1 ELSE 0) + SumLen(items, i + 1)

\* len(f"{t.role}: {t.content}") joined by newlines.
TurnsTextLen(ts) ==
    SumLen([i \in 1..Len(ts) |-> RoleLen(ts[i].role) + 2 + ts[i].content.len], 1)

SummaryLen(sm) == SumLen([i \in 1..Len(sm) |-> sm[i].len], 1)

total_tokens(s) ==
    approx_tokens(SummaryLen(s.summary)) + approx_tokens(TurnsTextLen(s.turns))

HeaderLine ==
    [kind |-> "header", role |-> "", text |-> "Compressed history:",
     shown |-> 19, cut |-> FALSE, len |-> 19]

\* "- {role}: {line}" with line = content.strip().replace("\n", " "), cut to
\* LineCut characters plus the three-character marker when longer.
CompressedLine(t) ==
    LET body  == t.content.len - t.content.pad
        shown == Min(body, LineCut)
        cut   == body > LineCut
    IN [kind |-> "turn", role |-> t.role, text |-> t.content.text,
        shown |-> shown, cut |-> cut,
        len |-> 2 + RoleLen(t.role) + 2 + shown + (IF cut THEN 3 ELSE 0)]

\* The final .strip() of the summary removes the blank that ends a last line
\* whose content is empty ("- user: ").
StripTail(ls) ==
    IF Len(ls) > 0 /\ ls[Len(ls)].kind = "turn" /\ ls[Len(ls)].shown = 0
    THEN [ls EXCEPT ![Len(ls)].len = @ - 1]
    ELSE ls

\* cut without the minimum of one turn.
CutCount_no_minimum(n) == (n * 4) \div 10

\* cut = max(1, int(len(self.turns) * 0.4))
CutCount(n) == Max(1, (n * 4) \div 10)

\* compress with self.turns = self.turns[cut + 1:]: one turn is lost.
compress_drops_turn(s, cut) ==
    [LogN(s, "compress", "", Min(cut, Len(s.turns))) EXCEPT
        !.turns = SubSeq(s.turns, cut + 2, Len(s.turns)),
        !.summary = StripTail(
            s.summary \o <<HeaderLine>>
            \o [i \in 1..Min(cut, Len(s.turns)) |-> CompressedLine(s.turns[i])])]

\* old = self.turns[:cut]; self.turns = self.turns[cut:]; the lines of old
\* go to the end of the summary under one header.
compress(s, cut) ==
    [LogN(s, "compress", "", Min(cut, Len(s.turns))) EXCEPT
        !.turns = SubSeq(s.turns, cut + 1, Len(s.turns)),
        !.summary = StripTail(
            s.summary \o <<HeaderLine>>
            \o [i \in 1..Min(cut, Len(s.turns)) |-> CompressedLine(s.turns[i])])]

\* A second pass when the first left the store over its limit.
compress_more(c) ==
    IF total_tokens(c) <= c.token_limit THEN c
    ELSE compress(c, CutCount(Len(c.turns)))

\* _maybe_compress that tries again while the store is over its limit.
maybe_compress_again(s) ==
    IF total_tokens(s) <= s.token_limit THEN s
    ELSE compress_more(compress(s, CutCount(Len(s.turns))))

maybe_compress(s) ==
    IF total_tokens(s) <= s.token_limit THEN s
    ELSE compress(s, CutCount(Len(s.turns)))

add_turn(s, role, content) ==
    maybe_compress([Log(s, "turn", content.text) EXCEPT
                      !.turns = Append(@, Turn(role, content)),
                      !.appended = Append(@, Turn(role, content))])

\* ---------------------------------------------------- permission managers
NoPending == [request_id |-> 0, command |-> ""]
PendingBash(request_id, command) == [request_id |-> request_id, command |-> command]

\* What request() hands back: the session after the call and the returned bool.
Ret(s, value) == [s |-> s, ret |-> value]

ApproveOnce  == {"y", "yes"}
ApproveAlways == {"a", "always"}
Deny         == {"", "n", "no"}
ValidAnswers == ApproveOnce \cup ApproveAlways \cup Deny

RECURSIVE PromptLoop(_, _)
\* The while-True loop of PermissionManager.request over the lines typed at
\* the prompt (already stripped and lowered); the loop needs a valid answer
\* to return, which the caller's guard provides.
PromptLoop(s, inputs) ==
    IF Head(inputs) \in ApproveOnce THEN Ret(Log(s, "prompt", Head(inputs)), TRUE)
    ELSE IF Head(inputs) \in ApproveAlways
         THEN Ret([Log(s, "prompt", Head(inputs)) EXCEPT !.always_allow = TRUE], TRUE)
    ELSE IF Head(inputs) \in Deny THEN Ret(Log(s, "prompt", Head(inputs)), FALSE)
    ELSE PromptLoop(Log(s, "prompt", Head(inputs)), Tail(inputs))

\* request that uses up the "always allow" answer on the next call.
request_unlatches(s, command, inputs) ==
    IF s.always_allow THEN Ret([s EXCEPT !.always_allow = FALSE], TRUE)
    ELSE PromptLoop(s, inputs)

PermissionManager_request(s, command, inputs) ==
    IF s.always_allow THEN Ret(s, TRUE)
    ELSE PromptLoop(s, inputs)

\* request that returns the recorded decision without consuming it.
request_keeps_decision(s, command) ==
    IF s.last_decision # "none"
    THEN Ret([s EXCEPT !.pending = NoPending], s.last_decision = "approved")
    ELSE IF s.pending = NoPending
         THEN Ret([s EXCEPT !.pending = PendingBash(s.next_uuid, command),
                            !.next_uuid = @ + 1],
                  FALSE)
         ELSE Ret(s, FALSE)

\* request without the "if self.pending is None" test.
request_always_new(s, command) ==
    IF s.last_decision # "none"
    THEN Ret([s EXCEPT !.last_decision = "none", !.pending = NoPending],
             s.last_decision = "approved")
    ELSE Ret([s EXCEPT !.pending = PendingBash(s.next_uuid, command),
                       !.next_uuid = @ + 1],
             FALSE)

WebPermissionManager_request(s, command) ==
    IF s.last_decision # "none"
    THEN Ret([s EXCEPT !.last_decision = "none", !.pending = NoPending],
             s.last_decision = "approved")
    ELSE IF s.pending = NoPending
         THEN Ret([s EXCEPT !.pending = PendingBash(s.next_uuid, command),
                            !.next_uuid = @ + 1],
                  FALSE)
         ELSE Ret(s, FALSE)

\* self.permission.request(command): the manager the Tools were built with.
Answered(r, command) ==
    Ret(LogN(r.s, "request", command, IF r.ret THEN 1 ELSE 0), r.ret)

request(s, command, inputs) ==
    Answered(IF s.mode = "cli"
             THEN PermissionManager_request(s, command, inputs)
             ELSE WebPermissionManager_request(s, command),
             command)

\* The typed lines one prompt can consume: invalid lines, then a valid one.
\* With always_allow set nothing is read.
RECURSIVE Invalids(_)
Invalids(k) == IF k = 0 THEN <<>> ELSE <<"maybe">> \o Invalids(k - 1)

PromptInputs(s) ==
    IF s.mode # "cli" \/ s.always_allow THEN {<<>>}
    ELSE {Invalids(k) \o <<a>> : k \in 0..MaxReprompts, a \in {"y", "a", "n", ""}}

\* ------------------------------------------------------------- tools.py
BashResult(ok, returncode, stdout, stderr, command) ==
    [ok |-> ok, returncode |-> returncode, stdout |-> stdout,
     stderr |-> stderr, command |-> command]

NoResult == BashResult(FALSE, -1, "", "", "")

\* subprocess.run outcomes: exit status 0, exit status 1, TimeoutExpired.
Outcomes == {"exit0", "exit1", "timeout"}

Raised(s) == Len(s.trace) > 0 /\ s.trace[Len(s.trace)].kind = "raise"

\* The return of bash, recorded with its ok (kind), stdout and returncode.
Returned(s, res) ==
    [s |-> LogN(s, IF res.ok THEN "bash_ok" ELSE "bash_failed", res.stdout, res.returncode),
     res |-> res]

\* Returns the session and the BashResult; a TimeoutExpired is left as the
\* last effect of the trace (Raised) and no result is returned.
\* subprocess.run(command, shell=True, ..., timeout=timeout_s) and the
\* BashResult built from it.
run_process(s, command, outcome) ==
    IF outcome = "timeout"
    THEN [s |-> Log(Log(s, "exec", command), "raise", "TimeoutExpired"), res |-> NoResult]
    ELSE Returned(Log(s, "exec", command),
                  BashResult(outcome = "exit0", IF outcome = "exit0" THEN 0 ELSE 1,
                             "out", "err", command))

\* bash without the "if not approved" return.
bash_unchecked(r, command, outcome) == run_process(r.s, command, outcome)

\* approved = self.permission.request(command) has answered r.
bash_approved(r, command, outcome) ==
    IF ~r.ret
    THEN Returned(r.s, BashResult(FALSE, RejectedCode, "",
                                  "User rejected bash command execution.", command))
    ELSE run_process(r.s, command, outcome)

bash(s, command, inputs, outcome) ==
    bash_approved(request(s, command, inputs), command, outcome)

calc_rel == "demo_repo/src/calculator.py"
test_rel == "demo_repo/tests/test_calculator.py"

\* calculator.py: absent; the unguarded divide the fix expects; an unguarded
\* divide written differently (no annotations); the guarded divide.
CalcContents == {"missing", "buggy", "odd", "fixed"}
\* test_calculator.py: absent; with test_divide_by_zero.
TestContents == {"missing", "with"}

\* A path is the sequence of its pieces: "/" and the pieces of text between.
\* The directory the Tools were built with, os.path.abspath(root_dir).
root_dir == <<"/", "srv", "/", "repo">>

\* The paths the tools are called with, by their text.
Chars(path) ==
    CASE path = calc_rel -> <<"demo_repo", "/", "src", "/", "calculator.py">>
      [] path = test_rel -> <<"demo_repo", "/", "tests", "/", "test_calculator.py">>
      [] path = "demo_repo/src/../src/calculator.py" ->
            <<"demo_repo", "/", "src", "/", "..", "/", "src", "/", "calculator.py">>
      [] path = "../repo/demo_repo/tests/test_calculator.py" ->
            <<"..", "/", "repo", "/", "demo_repo", "/", "tests", "/", "test_calculator.py">>
      [] path = "../repo2/notes.txt" -> <<"..", "/", "repo", "2", "/", "notes.txt">>
      [] path = "../../etc/passwd" -> <<"..", "/", "..", "/", "etc", "/", "passwd">>
      [] path = "demo_repo/../../secrets.txt" ->
            <<"demo_repo", "/", "..", "/", "..", "/", "secrets.txt">>
      [] path = "/etc/passwd" -> <<"/", "etc", "/", "passwd">>

RECURSIVE SplitFrom(_, _, _, _)
\* path.split("/"): the components of cs from piece i on, cur being the
\* component under way and acc the finished ones.
SplitFrom(cs, i, cur, acc) ==
    IF i > Len(cs) THEN Append(acc, cur)
    ELSE IF cs[i] = "/" THEN SplitFrom(cs, i + 1, <<>>, Append(acc, cur))
    ELSE SplitFrom(cs, i + 1, Append(cur, cs[i]), acc)

RECURSIVE NormFrom(_, _, _)
\* The loop of os.path.normpath on an absolute path: empty and "." components
\* are skipped, ".." removes the last kept component (none at the top).
NormFrom(comps, i, out) ==
    IF i > Len(comps) THEN out
    ELSE IF comps[i] \in {<<>>, <<".">>} THEN NormFrom(comps, i + 1, out)
    ELSE IF comps[i] = <<"..">>
         THEN NormFrom(comps, i + 1,
                       IF out = <<>> THEN out ELSE SubSeq(out, 1, Len(out) - 1))
    ELSE NormFrom(comps, i + 1, Append(out, comps[i]))

RECURSIVE JoinFrom(_, _)
JoinFrom(comps, i) ==
    IF i > Len(comps) THEN <<>>
    ELSE <<"/">> \o comps[i] \o JoinFrom(comps, i + 1)

\* The normalised components of an absolute path, and the path they spell.
Components(cs) == NormFrom(SplitFrom(cs, 1, <<>>, <<>>), 1, <<>>)
JoinPath(comps) == IF comps = <<>> THEN <<"/">> ELSE JoinFrom(comps, 1)
abspath(cs) == JoinPath(Components(cs))

\* os.path.join(a, b): an absolute b replaces a.
os_path_join(a, b) ==
    IF b # <<>> /\ b[1] = "/" THEN b
    ELSE IF a[Len(a)] = "/" THEN a \o b
    ELSE a \o <<"/">> \o b

\* str.startswith
StartsWith(a, b) == Len(a) >= Len(b) /\ SubSeq(a, 1, Len(b)) = b

\* The paths the file tools are called with: the two the agent uses, other
\* spellings of them, paths that leave root_dir, and an absolute path.
ToolPaths ==
    {calc_rel, test_rel, "demo_repo/src/../src/calculator.py",
     "../repo/demo_repo/tests/test_calculator.py", "../repo2/notes.txt",
     "../../etc/passwd", "demo_repo/../../secrets.txt", "/etc/passwd"}

\* abs_path = os.path.abspath(os.path.join(self.root_dir, file_path)),
\* worked out once for each path.
AbsPaths == [p \in ToolPaths |-> abspath(os_path_join(root_dir, Chars(p)))]
AbsPath(path) == AbsPaths[path]

\* The test of _safe_path without os.sep after the root.
InsideRoot_no_sep(abs) == StartsWith(abs, root_dir) \/ abs = root_dir

\* The test of _safe_path: abs_path.startswith(self.root_dir + os.sep) or
\* abs_path == self.root_dir.
InsideRoot(abs) == StartsWith(abs, root_dir \o <<"/">>) \/ abs = root_dir

\* FALSE when _safe_path raises ToolError.
safe_path(path) == InsideRoot(AbsPath(path))

UnsafeReadMsg == "read_file error: Unsafe path (outside root)"
UnsafeWriteMsg == "write_file error: Unsafe path (outside root)"

\* The content of the file at path; files other than the two of the demo
\* repository are absent.
FileOf(s, path) ==
    IF AbsPath(path) = AbsPath(calc_rel) THEN s.calc
    ELSE IF AbsPath(path) = AbsPath(test_rel) THEN s.test
    ELSE "missing"

\* The "read" effect stands for os.path.exists and what follows it; the
\* ToolError of _safe_path is caught by the except clause.
read_file(s, path) ==
    IF ~safe_path(path)
    THEN [s |-> Log(s, "unsafe", path), ok |-> FALSE, data |-> UnsafeReadMsg]
    ELSE IF FileOf(s, path) = "missing"
    THEN [s |-> Log(s, "read", path), ok |-> FALSE, data |-> "File not found"]
    ELSE [s |-> Log(s, "read", path), ok |-> TRUE, data |-> FileOf(s, path)]

\* f.write(content) on the file at abs.
written(s, abs, content) ==
    IF abs = AbsPath(calc_rel) THEN [s EXCEPT !.calc = content]
    ELSE IF abs = AbsPath(test_rel) THEN [s EXCEPT !.test = content]
    ELSE s

\* wok: whether makedirs/open/write succeed on this call.  The "write"
\* effect stands for os.makedirs and what follows it.
write_file(s, path, content, wok) ==
    IF ~safe_path(path)
    THEN [s |-> Log(s, "unsafe", path), ok |-> FALSE, data |-> UnsafeWriteMsg]
    ELSE IF ~wok
    THEN [s |-> Log(s, "write", path), ok |-> FALSE, data |-> "write_file error"]
    ELSE [s |-> written(Log(s, "write", path), AbsPath(path), content),
          ok |-> TRUE, data |-> "Wrote"]

\* ok, old = self.read_file(file_path) has returned r.
edit_file_write(r, path, changes, wok) ==
    IF ~r.ok THEN [s |-> r.s, ok |-> FALSE, data |-> r.data]
    ELSE write_file(Log(r.s, "diff", path), path, changes, wok)

edit_file(s, path, changes, wok) ==
    edit_file_write(read_file(s, path), path, changes, wok)

\* ------------------------------------------------------------- agent.py
BugRecord(bug_id, user_report) ==
    [bug_id |-> bug_id, user_report |-> user_report, expected_behavior |-> "",
     root_cause |-> "", proposed_fix |-> "", files_changed |-> <<>>,
     tests_added |-> <<>>, test_command |-> "", test_result_summary |-> ""]

\* new_bug without the increment of _bug_counter.
new_bug_same_counter(s, user_report) ==
    [s EXCEPT !.bugs = Append(@, BugRecord(s.bug_counter + 1, user_report))]

\* ContextStore.new_bug; bug_id n stands for f"BUG-{n:03d}".
new_bug(s, user_report) ==
    [s EXCEPT !.bug_counter = @ + 1,
              !.bugs = Append(@, BugRecord(s.bug_counter + 1, user_report))]

\* next(b for b in self.mem.bugs if b.bug_id == bug_id), as its index.
BugIndex(s, bug_id) ==
    CHOOSE i \in 1..Len(s.bugs) :
        /\ s.bugs[i].bug_id = bug_id
        /\ \A j \in 1..(i - 1) : s.bugs[j].bug_id # bug_id

\* Character counts of the texts the agent builds.
BugIdLen(n) == IF n < 1000 THEN 7 ELSE IF n < 10000 THEN 8 ELSE 9
JoinLen(n, each, sep) == IF n = 0 THEN 0 ELSE n * each + (n - 1) * sep
ListReprLen(n, each) == 2 + JoinLen(n, each + 2, 2)
CauseLen(h) == IF h = "explicit" THEN 69 ELSE IF h = "static" THEN 71 ELSE 0
FixLen(h) == IF h = "explicit" THEN 89 ELSE IF h = "static" THEN 41 ELSE 0

ClarifyingMsg(bug_id) == Text("clarifying", 308 + BugIdLen(bug_id), 0)
CouldNotReadMsg == Text("could_not_read", 87, 0)
UnableMsg(bug_id) == Text("unable", 195 + BugIdLen(bug_id), 0)
AnalysisMsg(bug_id, h) ==
    Text("analysis", 213 + BugIdLen(bug_id) + CauseLen(h) + FixLen(h), 0)
EditFailedMsg == Text("edit_failed", 91, 0)
WriteTestFailedMsg == Text("write_test_failed", 97, 0)
ImplementedMsg(bug) ==
    Text("implemented",
         196 + JoinLen(Len(bug.files_changed), 27, 2)
             + JoinLen(Len(bug.tests_added), 34, 2), 0)
TestResultsMsg(ok) == Text(IF ok THEN "test_results_PASS" ELSE "test_results_FAIL", 28, 0)

\* The needles of heuristic 1, looked for in user_report.lower().
ZeroDivTexts == {"divide(10, 0) raises ZeroDivisionError"}
MentionsZeroDivision(report) == report.text \in ZeroDivTexts

HasDefDivide(code) == code \in {"buggy", "odd", "fixed"}
HasGuard(code) == code = "fixed"
\* fixed.replace(<the unguarded divide>, <the guarded divide>)
ReplaceDivide(code) == IF code = "buggy" THEN "fixed" ELSE code
\* The new content of calculator.py.
Fixed(calc_code) ==
    IF HasDefDivide(calc_code) /\ ~HasGuard(calc_code)
    THEN ReplaceDivide(calc_code) ELSE calc_code

ask_clarifying(s, bug_id, report) == add_turn(s, "agent", ClarifyingMsg(bug_id))

\* _implement_fix_and_tests, statement by statement; i is the index of bug.
\* The closing message.
implement_report(s, i) == add_turn(s, "agent", ImplementedMsg(s.bugs[i]))

\* w: the write of the test file (ok with nothing written when the test is
\* already there).
implement_tests_added(w, i) ==
    IF ~w.ok THEN add_turn(w.s, "agent", WriteTestFailedMsg)
    ELSE implement_report([w.s EXCEPT !.bugs[i].tests_added = Append(@, test_rel)], i)

\* rt: the read of the test file; a failed read counts as an empty file.
implement_tests(rt, i, io) ==
    implement_tests_added(
        IF ~(rt.ok /\ rt.data = "with")
        THEN write_file(rt.s, test_rel, "with", io.test_ok)
        ELSE [s |-> rt.s, ok |-> TRUE, data |-> ""],
        i)

\* e: the result of edit_file on calculator.py.
implement_files_changed(e, i, io) ==
    IF ~e.ok THEN add_turn(e.s, "agent", EditFailedMsg)
    ELSE implement_tests(
             read_file([e.s EXCEPT !.bugs[i].files_changed = Append(@, calc_rel)],
                       test_rel),
             i, io)

\* r: the read of calculator.py.
implement_edit(r, i, io) ==
    IF ~r.ok THEN add_turn(r.s, "agent", CouldNotReadMsg)
    ELSE implement_files_changed(
             edit_file(r.s, calc_rel, Fixed(r.data), io.calc_ok), i, io)

implement_fix_and_tests(s, bug_id, io) ==
    implement_edit(read_file(s, calc_rel), BugIndex(s, bug_id), io)

\* Heuristic 1 (the report names the error), heuristic 2 (divide has no
\* guard), or "" when neither finds a root cause.
RootCause(user_report, calc_code) ==
    IF MentionsZeroDivision(user_report) THEN "explicit"
    ELSE IF HasDefDivide(calc_code) /\ ~HasGuard(calc_code) THEN "static"
    ELSE ""

\* _analyze_and_propose with the fix implemented before the analysis turn.
analyze_found_fix_first(s, bug_id, i, h, io) ==
    add_turn(implement_fix_and_tests(
                 [s EXCEPT !.bugs[i].root_cause = h, !.bugs[i].proposed_fix = h],
                 bug_id, io),
             "agent", AnalysisMsg(bug_id, h))

\* bug.root_cause and bug.proposed_fix are saved, the analysis is added to
\* the conversation, then the fix is implemented.
analyze_found(s, bug_id, i, h, io) ==
    implement_fix_and_tests(
        add_turn([s EXCEPT !.bugs[i].root_cause = h, !.bugs[i].proposed_fix = h],
                 "agent", AnalysisMsg(bug_id, h)),
        bug_id, io)

\* _analyze_and_propose without the return that ends the "still unknown" case.
analyze_read_no_return(r, bug_id, i, io) ==
    IF ~r.ok THEN add_turn(r.s, "agent", CouldNotReadMsg)
    ELSE IF RootCause(r.s.bugs[i].user_report, r.data) = ""
         THEN implement_fix_and_tests(add_turn(r.s, "agent", UnableMsg(bug_id)),
                                      bug_id, io)
    ELSE analyze_found(r.s, bug_id, i, RootCause(r.s.bugs[i].user_report, r.data), io)

\* r: the read of calculator.py.
analyze_read(r, bug_id, i, io) ==
    IF ~r.ok THEN add_turn(r.s, "agent", CouldNotReadMsg)
    ELSE IF RootCause(r.s.bugs[i].user_report, r.data) = ""
         THEN add_turn(r.s, "agent", UnableMsg(bug_id))
    ELSE analyze_found(r.s, bug_id, i, RootCause(r.s.bugs[i].user_report, r.data), io)

analyze_and_propose(s, bug_id, io) ==
    analyze_read(read_file(s, calc_rel), bug_id, BugIndex(s, bug_id), io)

\* s: the store after new_bug.
first_report(s, user_msg) ==
    ask_clarifying([s EXCEPT !.active_bug_id = s.bugs[Len(s.bugs)].bug_id],
                   s.bugs[Len(s.bugs)].bug_id, user_msg)

\* _handle_user_message without the return that ends the first report.
handle_user_message_no_return(s, user_msg, io) ==
    IF s.active_bug_id = 0
    THEN analyze_and_propose(first_report(new_bug(s, user_msg), user_msg),
                             s.bug_counter + 1, io)
    ELSE analyze_and_propose(s, s.active_bug_id, io)

handle_user_message(s, user_msg, io) ==
    IF s.active_bug_id = 0
    THEN first_report(new_bug(s, user_msg), user_msg)
    ELSE analyze_and_propose(s, s.active_bug_id, io)

RECURSIVE FinalLinesLen(_, _)
\* Character count of the lines _final_summary builds for bugs[i..], each
\* with the newline that joins it to the line before.
FinalLinesLen(bs, i) ==
    IF i > Len(bs) THEN 0
    ELSE 1 + 4 + BugIdLen(bs[i].bug_id) + bs[i].user_report.len
         + (IF bs[i].root_cause # "" THEN 17 + CauseLen(bs[i].root_cause) ELSE 0)
         + (IF bs[i].proposed_fix # "" THEN 10 + FixLen(bs[i].proposed_fix) ELSE 0)
         + (IF bs[i].files_changed # <<>>
            THEN 20 + ListReprLen(Len(bs[i].files_changed), 27) ELSE 0)
         + (IF bs[i].tests_added # <<>>
            THEN 18 + ListReprLen(Len(bs[i].tests_added), 34) ELSE 0)
         + (IF bs[i].test_result_summary # "" THEN 18 ELSE 0)
         + FinalLinesLen(bs, i + 1)

RECURSIVE FinalLines(_, _)
\* for b in self.mem.bugs: the "- {b.bug_id}: {b.user_report}" lines, one
\* effect each, from bugs[i] on.
FinalLines(s, i) ==
    IF i > Len(s.bugs) THEN s
    ELSE FinalLines(LogN(s, "final_line", s.bugs[i].user_report.text, s.bugs[i].bug_id),
                    i + 1)

final_summary(s) ==
    add_turn(FinalLines(s, 1), "agent",
             Text("final_summary", 22 + FinalLinesLen(s.bugs, 1), 0))

\* bugs[-1] takes the command and the verdict, when there is a bug.
record_test(s, cmd, verdict) ==
    IF Len(s.bugs) > 0
    THEN [s EXCEPT !.bugs[Len(s.bugs)].test_command = cmd,
                   !.bugs[Len(s.bugs)].test_result_summary = verdict]
    ELSE s

\* _run_tests_flow that closes the bug after the final summary.
run_tests_end_closes_bug(s, ok) ==
    IF ok THEN [final_summary(s) EXCEPT !.active_bug_id = 0] ELSE s

\* _run_tests_flow without the "if res.ok" before the final summary.
run_tests_end_always(s, ok) == final_summary(s)

\* s: the store after the "Test results summary" turn.
run_tests_end(s, ok) == IF ok THEN final_summary(s) ELSE s

\* b: what self.tools.bash(cmd) returned, or the exception it raised.
run_tests_result(b, cmd) ==
    IF Raised(b.s) THEN b.s
    ELSE run_tests_end(
             add_turn(record_test(b.s, cmd, IF b.res.ok THEN "PASS" ELSE "FAIL"),
                      "agent", TestResultsMsg(b.res.ok)),
             b.res.ok)

\* inputs: the lines typed at the permission prompt; outcome: what the
\* process does once started.
run_tests_flow(s, inputs, outcome) ==
    run_tests_result(bash(s, "pytest -q", inputs, outcome), "pytest -q")

\* ------------------------------------------------------------- drivers
\* str.strip(): the padding goes, the rest stays.
Strip(m) == Text(m.text, m.len - m.pad, 0)

\* What a user types, by what .strip().lower() makes of it.
ExitTexts == {"exit", "Quit"}
HelpTexts == {"help"}
ContextTexts == {"context"}
RunTestsTexts == {"run-tests"}

Reports ==
    {Text("it crashes sometimes", 20, 0),
     Text("divide(10, 0) raises ZeroDivisionError", 38, 0),
     Text(" it should raise instead <pasted log> ", 40002, 2)}
RunTestsLines == {Text("run-tests", 9, 0)}
CommandLines == {Text("exit", 4, 0), Text("Quit", 4, 0), Text("help", 4, 0),
                 Text("context", 7, 0)}

\* Whether the two file writes of the fix step succeed (the second is only
\* attempted after the first succeeded).
AllOk == [calc_ok |-> TRUE, test_ok |-> TRUE]
IoOutcomes == {AllOk, [calc_ok |-> FALSE, test_ok |-> TRUE],
               [calc_ok |-> TRUE, test_ok |-> FALSE]}

NoResp == [type |-> "", agent_message |-> "", request_id |-> 0, command |-> ""]
ChatResp(type, agent_message, request_id, command) ==
    [type |-> type, agent_message |-> agent_message,
     request_id |-> request_id, command |-> command]

\* The first effect names the entry point and, for /permission/respond, the
\* request_id it was sent.
Begin(s, name, n) ==
    [s EXCEPT !.trace = <<Ev("call", name, n)>>, !.steps = @ + 1, !.resp = NoResp]

\* render_for_agent: the parts of the text, in order.
Part(part, kind, role, text) == [part |-> part, kind |-> kind, role |-> role, text |-> text]
render_for_agent(s) ==
    <<Part("summary", "section", "", "=== SUMMARY (compressed) ===")>>
    \o [i \in 1..Len(s.summary) |->
          Part("summary", s.summary[i].kind, s.summary[i].role, s.summary[i].text)]
    \o <<Part("bugs", "section", "", "=== BUG TRACKER ===")>>
    \o (IF s.bugs = <<>> THEN <<Part("bugs", "bug", "", "(none)")>>
        ELSE [i \in 1..Len(s.bugs) |-> Part("bugs", "bug", "", s.bugs[i].user_report.text)])
    \o <<Part("turns", "section", "", "=== RECENT TURNS ===")>>
    \o [i \in 1..Len(s.turns) |->
          Part("turns", "turn", s.turns[i].role, s.turns[i].content.text)]

\* An exception that leaves _run_tests_flow leaves chat() and ends the process.
cli_unhandled(s) == IF Raised(s) THEN [s EXCEPT !.running = FALSE] ELSE s

\* One iteration of the CLI loop of BugFixerAgent.chat; user is the line
\* typed, stripped.
cli_chat(s, user, inputs, outcome, io) ==
    IF user.text \in ExitTexts
    THEN [Log(s, "print", "Bye.") EXCEPT !.running = FALSE]
    ELSE IF user.text \in HelpTexts THEN Log(s, "print", "Commands")
    ELSE IF user.text \in ContextTexts
         THEN LogN(s, "print", "context", Len(render_for_agent(s)))
    ELSE IF user.text \in RunTestsTexts
         THEN cli_unhandled(run_tests_flow(s, inputs, outcome))
    ELSE handle_user_message(add_turn(s, "user", user), user, io)

\* next((t.content for t in reversed(turns) if t.role == "agent"), "")
AgentTurns(s) == {i \in 1..Len(s.turns) : s.turns[i].role = "agent"}
last_agent(s) ==
    IF AgentTurns(s) = {} THEN ""
    ELSE s.turns[CHOOSE i \in AgentTurns(s) : \A j \in AgentTurns(s) : j <= i].content.text

\* The end of POST /chat.  An exception that leaves the handler is answered
\* with a server error; the process goes on.
chat_response(s) ==
    IF Raised(s) THEN [s EXCEPT !.resp = ChatResp("error", "", 0, "")]
    ELSE IF s.pending # NoPending
    THEN [s EXCEPT !.resp = ChatResp("permission_request", "permission",
                                     s.pending.request_id, s.pending.command)]
    ELSE [s EXCEPT !.resp =
             ChatResp("message",
                      IF last_agent(s) # "" THEN last_agent(s) ELSE "(no response)",
                      0, "")]

\* s: the store after add_turn("user", req.message).
chat_route(s, message, outcome, io) ==
    chat_response(IF Strip(message).text \in RunTestsTexts
                  THEN run_tests_flow(s, <<>>, outcome)
                  ELSE handle_user_message(s, message, io))

\* POST /chat.
chat(s, message, outcome, io) ==
    chat_route(add_turn(s, "user", message), message, outcome, io)

NoMatchMsg == "No matching permission request found."

\* The end of POST /permission/respond after the test flow was re-run.
respond_response(s) ==
    IF Raised(s) THEN [s EXCEPT !.resp = ChatResp("error", "", 0, "")]
    ELSE [s EXCEPT !.resp =
             ChatResp("message",
                      IF last_agent(s) # "" THEN last_agent(s) ELSE "Tests executed.",
                      0, "")]

\* permission_respond that records an approval and leaves the run to a later
\* run-tests.
permission_respond_record_only(s, request_id, approved, outcome) ==
    IF s.pending = NoPending \/ s.pending.request_id # request_id
    THEN [s EXCEPT !.resp = ChatResp("message", NoMatchMsg, 0, "")]
    ELSE [s EXCEPT !.last_decision = IF approved THEN "approved" ELSE "denied",
                   !.resp = ChatResp("message", "Understood", 0, "")]

\* permission_respond that only tests that something is pending.
permission_respond_any_id(s, request_id, approved, outcome) ==
    IF s.pending = NoPending
    THEN [s EXCEPT !.resp = ChatResp("message", NoMatchMsg, 0, "")]
    ELSE IF ~approved
    THEN [s EXCEPT !.last_decision = "denied",
                   !.resp = ChatResp("message", "Understood", 0, "")]
    ELSE respond_response(
             run_tests_flow([s EXCEPT !.last_decision = "approved"], <<>>, outcome))

\* POST /permission/respond.
permission_respond(s, request_id, approved, outcome) ==
    IF s.pending = NoPending \/ s.pending.request_id # request_id
    THEN [s EXCEPT !.resp = ChatResp("message", NoMatchMsg, 0, "")]
    ELSE IF ~approved
    THEN [s EXCEPT !.last_decision = "denied",
                   !.resp = ChatResp("message", "Understood", 0, "")]
    ELSE respond_response(
             run_tests_flow([s EXCEPT !.last_decision = "approved"], <<>>, outcome))

\* ------------------------------------------ web handlers that overlap
\* The endpoints are plain functions, which the server runs on worker
\* threads: calls of one session can overlap.  A call under way is at one of
\* the reads and writes of WebPermissionManager.pending and last_decision
\* (pc), with its arguments and the local variable decision of request().
Handler(kind, request_id, approved) ==
    [kind |-> kind, pc |-> IF kind = "chat" THEN "add_turn" ELSE "check_pending",
     request_id |-> request_id, approved |-> approved, decision |-> "none"]

\* A call arrives; the effects of overlapping calls share one trace.
start_handler(s, kind, name, request_id, approved) ==
    [s EXCEPT !.handlers = Append(@, Handler(kind, request_id, approved)),
              !.steps = @ + 1,
              !.trace = Append(@, Ev("call", name, request_id))]

Goto(s, t, pc) == [s EXCEPT !.handlers[t].pc = pc]

\* chat: s.memory.add_turn("user", req.message), then _run_tests_flow.
chat_add_turn(s, t, message) == Goto(add_turn(s, "user", message), t, "req_test")

\* permission_respond: "not s.permission.pending".
respond_check_pending(s, t) ==
    IF s.pending = NoPending
    THEN Goto([s EXCEPT !.resp = ChatResp("message", NoMatchMsg, 0, "")], t, "done")
    ELSE Goto(s, t, "check_id")

\* permission_respond: "s.permission.pending.request_id != req.request_id",
\* a second read of pending; on None the attribute access raises.
respond_check_id(s, t) ==
    IF s.pending = NoPending
    THEN Goto([Log(s, "raise", "AttributeError") EXCEPT
                  !.resp = ChatResp("error", "", 0, "")], t, "done")
    ELSE IF s.pending.request_id # s.handlers[t].request_id
    THEN Goto([s EXCEPT !.resp = ChatResp("message", NoMatchMsg, 0, "")], t, "done")
    ELSE Goto(s, t, "record")

\* permission_respond: s.permission.last_decision = req.approved, and the
\* return of a denial.
respond_record(s, t) ==
    IF ~s.handlers[t].approved
    THEN Goto([s EXCEPT !.last_decision = "denied",
                        !.resp = ChatResp("message", "Understood", 0, "")], t, "done")
    ELSE Goto(LogN([s EXCEPT !.last_decision = "approved"],
                   "approved", "", s.handlers[t].request_id), t, "req_test")

\* request(), one read or write of the manager's fields at a time.
request_step(s, t) ==
    CASE s.handlers[t].pc = "req_test" ->
            Goto(s, t, IF s.last_decision # "none" THEN "req_read" ELSE "req_pending")
      [] s.handlers[t].pc = "req_read" ->
            [Goto(s, t, "req_clear_decision") EXCEPT
                !.handlers[t].decision = s.last_decision]
      [] s.handlers[t].pc = "req_clear_decision" ->
            Goto([s EXCEPT !.last_decision = "none"], t, "req_clear_pending")
      [] s.handlers[t].pc = "req_clear_pending" ->
            Goto([s EXCEPT !.pending = NoPending], t, "run")
      [] s.handlers[t].pc = "req_pending" ->
            Goto(s, t, IF s.pending = NoPending THEN "req_create" ELSE "run")
      [] s.handlers[t].pc = "req_create" ->
            Goto([s EXCEPT !.pending = PendingBash(s.next_uuid, "pytest -q"),
                           !.next_uuid = @ + 1], t, "run")
RequestPcs == {"req_test", "req_read", "req_clear_decision", "req_clear_pending",
               "req_pending", "req_create"}

\* The rest of the call once request() has returned decision: bash, the
\* rest of _run_tests_flow and the response.
handler_run(s, t, outcome) ==
    IF s.handlers[t].kind = "chat"
    THEN chat_response(run_tests_result(
             bash_approved(Answered(Ret(Goto(s, t, "done"),
                                        s.handlers[t].decision = "approved"),
                                    "pytest -q"),
                           "pytest -q", outcome),
             "pytest -q"))
    ELSE respond_response(run_tests_result(
             bash_approved(Answered(Ret(Goto(s, t, "done"),
                                        s.handlers[t].decision = "approved"),
                                    "pytest -q"),
                           "pytest -q", outcome),
             "pytest -q"))

\* ------------------------------------------------------------- actions
CanStep == running /\ steps < MaxSteps

CliCommand ==
    /\ CanStep /\ mode = "cli"
    /\ \E line \in CommandLines :
          Commit(cli_chat(Begin(Cur, "cli", 0), Strip(line), <<>>, "exit0", AllOk))

\* The process is only started, and so only has an outcome, when the
\* answer approves.
OutcomesFor(inputs) ==
    IF inputs # <<>> /\ inputs[Len(inputs)] \in Deny THEN {"exit0"} ELSE Outcomes

CliRunTests ==
    /\ CanStep /\ mode = "cli"
    /\ \E line \in RunTestsLines, inputs \in PromptInputs(Cur) :
       \E outcome \in OutcomesFor(inputs) :
          Commit(cli_chat(Begin(Cur, "cli", 0), Strip(line), inputs, outcome, AllOk))

CliMessage ==
    /\ CanStep /\ mode = "cli"
    /\ \E line \in Reports, io \in IoOutcomes :
          Commit(cli_chat(Begin(Cur, "cli", 0), Strip(line), <<>>, "exit0", io))

WebChat ==
    /\ CanStep /\ mode = "web"
    /\ \E message \in Reports, io \in IoOutcomes :
          Commit(chat(Begin(Cur, "chat", 0), message, "exit0", io))

WebChatRunTests ==
    /\ CanStep /\ mode = "web"
    /\ \E message \in RunTestsLines, outcome \in Outcomes :
          Commit(chat(Begin(Cur, "chat", 0), message, outcome, AllOk))

\* The ids a client can send: any id issued so far, or one never issued.
WebPermissionRespond ==
    /\ CanStep /\ mode = "web"
    /\ \E request_id \in 1..next_uuid, approved \in BOOLEAN :
       \E outcome \in IF approved THEN Outcomes ELSE {"exit0"} :
          Commit(permission_respond(
                     Begin(Cur, IF approved THEN "respond_approve" ELSE "respond_deny",
                           request_id),
                     request_id, approved, outcome))

\* Web calls that overlap: arrivals, then one step of one call under way.
CanArrive == running /\ mode = "web" /\ steps < MaxHandlers
At(pcs) == {t \in DOMAIN handlers : handlers[t].pc \in pcs}

RaceChatArrives ==
    /\ CanArrive
    /\ Commit(start_handler(Cur, "chat", "chat", 0, FALSE))

\* The ids a client can send: an id issued so far, or 0 for one that is
\* never issued.
RaceRespondArrives ==
    /\ CanArrive
    /\ \E request_id \in 0..(next_uuid - 1), approved \in BOOLEAN :
          Commit(start_handler(Cur, "respond",
                               IF approved THEN "respond_approve" ELSE "respond_deny",
                               request_id, approved))

RaceChatAddTurn ==
    \E t \in At({"add_turn"}), message \in RunTestsLines :
        Commit(chat_add_turn(Cur, t, message))

RaceRespondValidate ==
    \/ \E t \in At({"check_pending"}) : Commit(respond_check_pending(Cur, t))
    \/ \E t \in At({"check_id"}) : Commit(respond_check_id(Cur, t))

RaceRespondRecord ==
    \E t \in At({"record"}) : Commit(respond_record(Cur, t))

RaceRequest ==
    \E t \in At(RequestPcs) : Commit(request_step(Cur, t))

RaceRun ==
    \E t \in At({"run"}) :
    \E outcome \in IF handlers[t].decision = "approved" THEN Outcomes ELSE {"exit0"} :
        Commit(handler_run(Cur, t, outcome))

\* Any other client of the tools: Tools.bash with a command of its own.  In
\* the CLI process an exception it raises is not handled.
Commands == {"pytest -q", "make clean"}
tools_bash(s, command, inputs, outcome) ==
    IF s.mode = "cli" THEN cli_unhandled(bash(s, command, inputs, outcome).s)
    ELSE bash(s, command, inputs, outcome).s

ToolsBash ==
    /\ CanStep /\ mode \in {"cli", "web"}
    /\ \E command \in Commands, inputs \in PromptInputs(Cur) :
       \E outcome \in OutcomesFor(inputs) :
          Commit(tools_bash(Begin(Cur, "bash", 0), command, inputs, outcome))

\* The file tools called directly, with any path.
FileTexts == {"buggy", "fixed"}

\* What a file tool returned, (ok, text), as the last effect of the call.
file_returned(r) == Log(r.s, IF r.ok THEN "file_ok" ELSE "file_failed", r.data)

ToolsReadFile ==
    /\ CanStep /\ mode = "tools"
    /\ \E path \in ToolPaths :
          Commit(file_returned(
              read_file(Log(Begin(Cur, "read_file", 0), "path", path), path)))

ToolsWriteFile ==
    /\ CanStep /\ mode = "tools"
    /\ \E path \in ToolPaths, content \in FileTexts, wok \in BOOLEAN :
          Commit(file_returned(
              write_file(Log(Begin(Cur, "write_file", 0), "path", path),
                         path, content, wok)))

ToolsEditFile ==
    /\ CanStep /\ mode = "tools"
    /\ \E path \in ToolPaths, changes \in FileTexts, wok \in BOOLEAN :
          Commit(file_returned(
              edit_file(Log(Begin(Cur, "edit_file", 0), "path", path),
                        path, changes, wok)))

\* ContextStore alone: add_turn with any role and content.
MemContents == {Text("", 0, 0), Text(" ok ", 10, 2), Text("long", 200, 0)}
MemTokenLimits == {1, 20, 60}
MemAddTurn ==
    /\ mode = "mem" /\ Len(appended) < MaxAppends
    /\ \E role \in {"user", "agent"}, content \in MemContents :
          Commit(add_turn(Begin(Cur, "add_turn", 0), role, content))

\* Any other client of the ContextStore: new_bug with a report of its own.
StoreNewBug ==
    /\ CanStep /\ mode \in {"cli", "web"}
    /\ \E report \in Reports : Commit(new_bug(Begin(Cur, "new_bug", 0), report))

InitCommon ==
    /\ turns = <<>> /\ summary = <<>> /\ bugs = <<>> /\ bug_counter = 0
    /\ active_bug_id = 0
    /\ always_allow = FALSE
    /\ pending = NoPending /\ last_decision = "none" /\ next_uuid = 1
    /\ running = TRUE /\ resp = NoResp /\ trace = <<>> /\ appended = <<>>
    /\ steps = 0
    /\ handlers = <<>>

Init ==
    /\ InitCommon
    /\ mode \in {"cli", "web"}
    /\ token_limit = AgentTokenLimit
    /\ calc \in CalcContents
    /\ test \in TestContents

\* One web session.
WebInit == Init /\ mode = "web"

\* One web session whose calls may overlap.
RaceInit == WebInit /\ calc = "buggy" /\ test = "missing"

\* The tools driven directly: one state of the files is enough.
ToolsInit ==
    /\ InitCommon
    /\ mode \in {"cli", "web"}
    /\ token_limit = AgentTokenLimit
    /\ calc = "buggy" /\ test = "missing"

FilesInit ==
    /\ InitCommon
    /\ mode = "tools"
    /\ token_limit = AgentTokenLimit
    /\ calc \in CalcContents
    /\ test \in TestContents

MemInit ==
    /\ InitCommon
    /\ mode = "mem"
    /\ token_limit \in MemTokenLimits
    /\ calc = "missing" /\ test = "missing"

NextCli == CliCommand \/ CliRunTests \/ CliMessage
NextWeb == WebChat \/ WebChatRunTests \/ WebPermissionRespond
Next == NextCli \/ NextWeb
NextTools == Next \/ ToolsBash
MemNext == MemAddTurn
NextBugs == Next \/ StoreNewBug
NextRace ==
    \/ RaceChatArrives \/ RaceRespondArrives \/ RaceChatAddTurn
    \/ RaceRespondValidate \/ RaceRespondRecord \/ RaceRequest \/ RaceRun
NextFiles == ToolsReadFile \/ ToolsWriteFile \/ ToolsEditFile

Spec == Init /\ [][Next]_vars
SpecWeb == WebInit /\ [][NextWeb]_vars
SpecTools == ToolsInit /\ [][NextTools]_vars
SpecMem == MemInit /\ [][MemNext]_vars
SpecBugs == ToolsInit /\ [][NextBugs]_vars
SpecFiles == FilesInit /\ [][NextFiles]_vars
SpecRace == RaceInit /\ [][NextRace]_vars

\* ------------------------------------------------------------- claims
\* The effects of kind k in the trace tr of one handler call.
Effects(tr, k) == {i \in DOMAIN tr : tr[i].kind = k}
Requests(tr) == Effects(tr, "request")
Granted(tr) == {i \in Requests(tr) : tr[i].n = 1}
Refused(tr) == {i \in Requests(tr) : tr[i].n = 0}
RespondCall(tr) ==
    Len(tr) > 0 /\ tr[1].kind = "call" /\ tr[1].arg \in {"respond_approve", "respond_deny"}
TestResultTurns(tr) ==
    {i \in Effects(tr, "turn") : tr[i].arg \in {"test_results_PASS", "test_results_FAIL"}}
Count(x, seq) == Cardinality({i \in DOMAIN seq : seq[i] = x})

\* C1: in every call of Tools.bash the shell is started only right after
\* request(command) returned true in that call, and a request that returned
\* false is followed at once by the return of ok = false, returncode 126,
\* empty stdout, with no process started.
C1_ShellOnlyAfterApproval ==
    \A i \in DOMAIN trace :
        /\ trace[i].kind = "exec" =>
              i > 1 /\ trace[i - 1] = Ev("request", trace[i].arg, 1)
        /\ (trace[i].kind = "request" /\ trace[i].n = 0) =>
              i < Len(trace) /\ trace[i + 1] = Ev("bash_failed", "", RejectedCode)

\* A bash call was refused after earlier calls of the session.
C1_Witness == steps >= 3 /\ Refused(trace) # {} /\ Effects(trace, "exec") = {}

\* C2 (as claimed): a run-tests step whose request was refused leaves
\* test_command and test_result_summary of every bug record unchanged and
\* reports no PASS/FAIL test result.
C2_RejectedRunLeavesRecord ==
    [][(trace'[1] # Ev("call", "bash", 0) /\ Refused(trace') # {}) =>
          /\ \A k \in DOMAIN bugs :
                /\ bugs'[k].test_command = bugs[k].test_command
                /\ bugs'[k].test_result_summary = bugs[k].test_result_summary
          /\ TestResultTurns(trace') = {}]_vars

\* C3 (as claimed): whatever number of times the fix step ran, files_changed
\* holds the touched path once and tests_added holds the test path once.
C3_LedgerEntriesOnce ==
    \A k \in DOMAIN bugs :
        /\ Count(calc_rel, bugs[k].files_changed) <= 1
        /\ Count(test_rel, bugs[k].tests_added) <= 1

\* C4: every turn ever appended is either one compacted line of summary or
\* one live turn; the compacted lines followed by the live turns are the
\* appended turns in order, with their roles and their content (a prefix of
\* at most LineCut characters in a compacted line); render_for_agent shows
\* them in that order, the summary part first.
TurnLines(sm) == SelectSeq(sm, LAMBDA l : l.kind = "turn")
RenderedTurns(s) == SelectSeq(render_for_agent(s), LAMBDA p : p.kind = "turn")
C4_EveryTurnAccounted ==
    /\ Len(TurnLines(summary)) + Len(turns) = Len(appended)
    /\ \A i \in 1..Len(TurnLines(summary)) :
          /\ TurnLines(summary)[i].role = appended[i].role
          /\ TurnLines(summary)[i].text = appended[i].content.text
          /\ TurnLines(summary)[i].shown =
                Min(appended[i].content.len - appended[i].content.pad, LineCut)
    /\ \A j \in 1..Len(turns) : turns[j] = appended[Len(TurnLines(summary)) + j]
    /\ Len(RenderedTurns(Cur)) = Len(appended)
    /\ \A i \in 1..Len(RenderedTurns(Cur)) :
          /\ RenderedTurns(Cur)[i].role = appended[i].role
          /\ RenderedTurns(Cur)[i].text = appended[i].content.text
          /\ RenderedTurns(Cur)[i].part =
                IF i <= Len(TurnLines(summary)) THEN "summary" ELSE "turns"

\* Two compaction passes ran, one line was cut, and live turns remain.
C4_Witness ==
    /\ mode = "mem"
    /\ Cardinality({i \in DOMAIN summary : summary[i].kind = "header"}) >= 2
    /\ \E i \in DOMAIN summary : summary[i].cut
    /\ Len(turns) >= 1

\* C5: permission_respond with the pending request's id and approved = true
\* makes exactly one request() return true, which starts the command once,
\* and leaves nothing pending and no decision; and a request() made when
\* nothing is pending and no decision is recorded returns false and creates a
\* pending request with an id never issued before.
C5_ApprovalUsedOnce ==
    [][/\ (pending # NoPending
            /\ trace'[1] = Ev("call", "respond_approve", pending.request_id)) =>
              /\ Cardinality(Granted(trace')) = 1
              /\ Cardinality(Requests(trace')) = 1
              /\ Cardinality(Effects(trace', "exec")) = 1
              /\ pending' = NoPending
              /\ last_decision' = "none"
       /\ (mode = "web" /\ pending = NoPending /\ last_decision = "none"
            /\ Requests(trace') # {}) =>
              /\ Granted(trace') = {}
              /\ pending' # NoPending
              /\ pending'.request_id >= next_uuid
              /\ next_uuid' > pending'.request_id]_vars

\* After an approved run that passed, a new run-tests got a second pending
\* request.
C5_Witness ==
    /\ mode = "web"
    /\ \E i \in DOMAIN appended : appended[i].content.text = "test_results_PASS"
    /\ Refused(trace) # {}
    /\ pending # NoPending /\ pending.request_id = 2

\* C6 (as claimed): while a decision is recorded for the pending request of
\* command C, a request(D) with D # C does not return true and leaves the
\* decision and the pending request in place.
C6_DecisionOnlyForItsCommand ==
    [][(mode = "web" /\ last_decision # "none" /\ pending # NoPending
         /\ \E i \in Requests(trace') : trace'[i].arg # pending.command) =>
          /\ Granted(trace') = {}
          /\ last_decision' = last_decision
          /\ pending' = pending]_vars

\* C7 (as claimed): a decision carrying the pending request's id clears the
\* pending request, approve or deny; and a permission_respond that repeats
\* the id of the decision just taken is answered "no matching permission
\* request", changes no decision and starts nothing.
C7_DecisionConsumesPending ==
    [][/\ (pending # NoPending /\ RespondCall(trace')
            /\ trace'[1].n = pending.request_id) => pending' = NoPending
       /\ (RespondCall(trace) /\ resp.agent_message # NoMatchMsg
            /\ RespondCall(trace') /\ trace'[1].n = trace[1].n) =>
              /\ resp'.agent_message = NoMatchMsg
              /\ last_decision' = last_decision
              /\ Effects(trace', "exec") = {}]_vars

\* C8: a request() made while a request is pending and no decision is
\* recorded (in a call that records none) returns false and leaves the pending record as it is (same
\* request_id, same command, no new id issued); the request() that created
\* the pending record returned false too.
C8_PendingRequestIdempotent ==
    [][/\ (mode = "web" /\ pending # NoPending /\ last_decision = "none"
            /\ ~RespondCall(trace') /\ Requests(trace') # {}) =>
              /\ Granted(trace') = {}
              /\ Effects(trace', "exec") = {}
              /\ pending' = pending
              /\ next_uuid' = next_uuid
       /\ (mode = "web" /\ pending = NoPending /\ pending' # NoPending) =>
              Requests(trace') # {} /\ Granted(trace') = {}]_vars

\* run-tests was sent twice with no decision in between: the one pending
\* request is still the first.
C8_Witness ==
    /\ mode = "web"
    /\ Cardinality({i \in DOMAIN appended : appended[i].content.text = "run-tests"}) >= 2
    /\ Refused(trace) # {}
    /\ pending # NoPending /\ pending.request_id = 1 /\ next_uuid = 2
    /\ last_decision = "none"

\* C9: permission_respond with an id that is not the pending request's, or
\* with nothing pending, changes nothing (pending, last_decision, the
\* conversation, the bug records, the files), starts nothing and answers
\* "No matching permission request found."
C9_MismatchedRespondIsNoOp ==
    [][(RespondCall(trace')
         /\ (pending = NoPending \/ pending.request_id # trace'[1].n)) =>
          /\ UNCHANGED <<pending, last_decision, next_uuid, turns, summary,
                         appended, bugs, bug_counter, active_bug_id, calc, test>>
          /\ Len(trace') = 1
          /\ resp' = ChatResp("message", NoMatchMsg, 0, "")]_vars

\* A respond with the wrong id was answered while a request was pending and
\* the session had a bug record.
C9_Witness ==
    /\ RespondCall(trace) /\ resp.agent_message = NoMatchMsg
    /\ pending # NoPending /\ bugs # <<>>

\* C10: in the effects of one handler call every file write comes after the
\* analysis turn was added to the conversation in that call.
C10_AnalysisBeforeWrite ==
    \A i \in Effects(trace, "write") :
        \E j \in 1..(i - 1) : trace[j] = Ev("turn", "analysis", 0)

\* A fix step wrote the source file and the test file.
C10_Witness ==
    /\ \E i \in Effects(trace, "write") : trace[i].arg = calc_rel
    /\ \E i \in Effects(trace, "write") : trace[i].arg = test_rel

\* A handler call that took a bug report (not run-tests, not a command).
ReportTexts == {r.text : r \in Reports}
MessageCall(tr) ==
    /\ Len(tr) >= 2 /\ tr[1].kind = "call" /\ tr[1].arg \in {"cli", "chat"}
    /\ tr[2].kind = "turn" /\ tr[2].arg \in ReportTexts
TurnsOf(tr, tag) == {i \in Effects(tr, "turn") : tr[i].arg = tag}

\* C11: a report handled while a bug is active, calculator.py is readable and
\* neither heuristic finds a root cause adds the "unable to confidently
\* identify" turn; and a call that adds that turn leaves every bug record
\* (root_cause, proposed_fix, files_changed, tests_added and the rest), the
\* active bug and both files as they were, writes no file, and adds no other
\* agent turn.
C11_DeclinedAnalysisChangesNothing ==
    [][/\ (active_bug_id # 0 /\ MessageCall(trace') /\ calc # "missing"
            /\ RootCause(bugs[BugIndex(Cur, active_bug_id)].user_report, calc) = "") =>
              TurnsOf(trace', "unable") # {}
       /\ TurnsOf(trace', "unable") # {} =>
              /\ UNCHANGED <<bugs, bug_counter, active_bug_id, calc, test>>
              /\ Effects(trace', "write") = {}
              /\ Effects(trace', "diff") = {}
              /\ Cardinality(Effects(trace', "turn")) = 2]_vars

\* The analysis declined on a bug whose fix was applied by an earlier report.
C11_Witness ==
    /\ TurnsOf(trace, "unable") # {}
    /\ bugs # <<>> /\ bugs[1].files_changed # <<>>

\* The store of the state with the turn of this add_turn call appended,
\* before _maybe_compress looks at it.
AfterAppend == [Cur EXCEPT !.turns = Append(turns, appended'[Len(appended')])]
Passes(tr) == Effects(tr, "compress")

\* C12: an add_turn call runs one compaction pass when total_tokens() is over
\* token_limit after the append and none otherwise, never two; so after the
\* call the store is within its limit or exactly one pass ran; and the lines
\* the summary had before the call are all still there, unchanged and in
\* place, with the new lines after them.
C12_OnePassPerAppend ==
    [][steps' # steps =>
          /\ Cardinality(Passes(trace')) <= 1
          /\ (Passes(trace') # {}) <=> (total_tokens(AfterAppend) > token_limit)
          /\ total_tokens(Cur') <= token_limit' \/ Cardinality(Passes(trace')) = 1
          /\ Len(summary') >= Len(summary)
          /\ \A i \in 1..Len(summary) : summary'[i] = summary[i]]_vars

\* A pass ran on a store that already had a summary and left it over its
\* limit.
C12_Witness ==
    /\ mode = "mem" /\ Passes(trace) # {}
    /\ total_tokens(Cur) > token_limit
    /\ Cardinality({i \in DOMAIN summary : summary[i].kind = "header"}) >= 2
    /\ Len(turns) >= 1

\* ceil(0.4 * n) for a natural n.
CeilFortyPercent(n) == (4 * n + 9) \div 10

\* C13 (as claimed): a compaction pass on n live turns moves the oldest
\* ceil(0.4 * n) turns, at least 1, to the summary.
C13_CutIsCeiling ==
    [][\A i \in Passes(trace') :
          /\ trace'[i].n = Max(1, CeilFortyPercent(Len(turns) + 1))
          /\ Len(turns') = Len(turns) + 1 - Max(1, CeilFortyPercent(Len(turns) + 1))]_vars

\* The live turns of the store a pass of this call worked on.
LiveBefore == Append(turns, appended'[Len(appended')])
\* floor(0.4 * n) for a natural n.
FloorFortyPercent(n) == (2 * n) \div 5

\* C13 (amended): a compaction pass on n live turns moves the oldest
\* max(1, floor(0.4 * n)) turns to the summary, one line each under one new
\* header, and keeps the others as the live turns, in order.
C13_CutIsFloor ==
    [][\A i \in Passes(trace') :
          /\ trace'[i].n = Max(1, FloorFortyPercent(Len(LiveBefore)))
          /\ turns' = SubSeq(LiveBefore, trace'[i].n + 1, Len(LiveBefore))
          /\ Len(summary') = Len(summary) + 1 + trace'[i].n
          /\ summary'[Len(summary) + 1].kind = "header"
          /\ \A k \in 1..trace'[i].n :
                /\ summary'[Len(summary) + 1 + k].role = LiveBefore[k].role
                /\ summary'[Len(summary) + 1 + k].text = LiveBefore[k].content.text]_vars

\* A pass ran on three live turns, where floor and ceiling differ: one turn
\* went to the summary, two stayed.
C13_Witness ==
    /\ mode = "mem"
    /\ \E i \in Passes(trace) : trace[i].n = 1
    /\ Len(turns) = 2

\* The bug ids the final summary of this call listed, in order.
FinalListed(tr) == SelectSeq(tr, LAMBDA e : e.kind = "final_line")

\* C14: a handler call adds the final summary exactly when a command it
\* started returned exit code 0 (so not when the run failed, was refused or is
\* waiting for a decision, and not when nothing was run), at most once, and
\* the summary lists every bug record of the store, in creation order.
C14_FinalSummaryOnPassOnly ==
    /\ (TurnsOf(trace, "final_summary") # {}) <=> (Effects(trace, "bash_ok") # {})
    /\ \A i \in Effects(trace, "bash_ok") :
          /\ trace[i].n = 0
          /\ trace[i - 1].kind = "exec"
          /\ Granted(trace) # {}
    /\ Cardinality(TurnsOf(trace, "final_summary")) <= 1
    /\ TurnsOf(trace, "final_summary") # {} =>
          /\ Len(FinalListed(trace)) = Len(bugs)
          /\ \A k \in DOMAIN bugs :
                /\ FinalListed(trace)[k].n = bugs[k].bug_id
                /\ FinalListed(trace)[k].arg = bugs[k].user_report.text

\* The final summary was added in a session with two bug records, after a
\* run that did not pass.
C14_Witness ==
    /\ TurnsOf(trace, "final_summary") # {}
    /\ Len(bugs) >= 2
    /\ \E i \in DOMAIN appended : appended[i].content.text = "test_results_FAIL"

\* C15 (as claimed): when an approved command outlives its timeout, the call
\* goes on to add a message about it to the conversation, the process stays
\* alive and the caller gets no unhandled error.
C15_TimeoutIsSurfaced ==
    \A i \in Effects(trace, "raise") :
        /\ running
        /\ resp.type # "error"
        /\ \E j \in Effects(trace, "turn") : j > i

\* A bug of the store has reached FixApplied: a fix is recorded for it.
FixRecorded == \E k \in DOMAIN bugs : bugs[k].files_changed # <<>>

\* C19 (as claimed): a handler call made while no bug has a fix recorded in
\* files_changed (no bug yet, or the bug still being clarified) asks for no
\* permission and starts no command.
C19_RunTestsNeedsFix ==
    [][~FixRecorded => (Requests(trace') = {} /\ Effects(trace', "exec") = {})]_vars

\* The chat call that handled run-tests.
RunTestsChat(tr) ==
    /\ Len(tr) >= 2 /\ tr[1] = Ev("call", "chat", 0)
    /\ tr[2] = Ev("turn", "run-tests", 0)

\* C20 (as claimed): in a web session a run-tests sent after a denial gets a
\* pending request with an id never issued before, returned to the caller as
\* a permission_request.
C20_DenialOnlyForItsAttempt ==
    [][(mode = "web" /\ last_decision = "denied" /\ RunTestsChat(trace')) =>
          /\ pending' # NoPending
          /\ pending'.request_id >= next_uuid
          /\ resp'.type = "permission_request"
          /\ resp'.request_id = pending'.request_id]_vars

\* C17: every step keeps the records bugs had, in place and with their
\* bug_id, and adds at most one; a record new_bug adds has a sequence number
\* greater than that of every record created before it, so the numbers
\* increase along bugs and no two records share one.
C17_BugIdsIncrease ==
    [][/\ Len(bugs') \in {Len(bugs), Len(bugs) + 1}
       /\ \A i \in DOMAIN bugs : bugs'[i].bug_id = bugs[i].bug_id
       /\ \A j \in (DOMAIN bugs') \ (DOMAIN bugs) :
             \A i \in DOMAIN bugs : bugs'[j].bug_id > bugs[i].bug_id
       /\ \A i, j \in DOMAIN bugs' : i < j => bugs'[i].bug_id < bugs'[j].bug_id]_vars

\* Three records exist, the first created and fixed by the agent, the others
\* created after it.
C17_Witness ==
    /\ Len(bugs) >= 3
    /\ bugs[1].files_changed # <<>>
    /\ active_bug_id = bugs[1].bug_id

\* C18: in a CLI session always_allow, once true, stays true, and then a
\* request returns true with nothing asked; otherwise a request returns right
\* after a valid answer, true on y/yes and a/always (the latter setting
\* always_allow), false on n/no and the empty line; and every other answer is
\* followed by another prompt, not by a return.
C18_AlwaysAllowLatches ==
    [][mode = "cli" =>
          /\ always_allow => always_allow'
          /\ always_allow => (Refused(trace') = {} /\ Effects(trace', "prompt") = {})
          /\ ~always_allow =>
                \A i \in Requests(trace') :
                    /\ i > 1 /\ trace'[i - 1].kind = "prompt"
                    /\ (trace'[i].n = 1) <=>
                          (trace'[i - 1].arg \in ApproveOnce \cup ApproveAlways)
                    /\ (trace'[i].n = 0) <=> (trace'[i - 1].arg \in Deny)
                    /\ always_allow' <=> (trace'[i - 1].arg \in ApproveAlways)
          /\ \A i \in Effects(trace', "prompt") :
                /\ i < Len(trace')
                /\ trace'[i + 1].kind =
                      IF trace'[i].arg \in ValidAnswers THEN "request" ELSE "prompt"]_vars

\* After "always allow" a later command was approved with nothing asked.
C18_Witness ==
    /\ mode = "cli" /\ always_allow
    /\ Granted(trace) # {} /\ Effects(trace, "prompt") = {}

\* The path of the file tool call, and whether its normalised absolute form
\* is outside root_dir: its components do not begin with those of root_dir.
CalledWith(tr, p) == Len(tr) >= 2 /\ tr[2] = Ev("path", p, 0)
Outside(p) ==
    ~(/\ Len(Components(AbsPath(p))) >= Len(Components(root_dir))
      /\ SubSeq(Components(AbsPath(p)), 1, Len(Components(root_dir)))
            = Components(root_dir))

\* C16: read_file, write_file and edit_file called with a path whose
\* normalised absolute form is outside root_dir return a failure that names
\* the unsafe path, with no access to the file system in the call (no
\* existence check or open, no directory creation or write, no diff) and both
\* files as they were.
C16_UnsafePathNoAccess ==
    [][\A p \in ToolPaths :
          (CalledWith(trace', p) /\ Outside(p)) =>
              /\ Effects(trace', "read") = {}
              /\ Effects(trace', "write") = {}
              /\ Effects(trace', "diff") = {}
              /\ UNCHANGED <<calc, test>>
              /\ trace'[Len(trace')].kind = "file_failed"
              /\ trace'[Len(trace')].arg \in {UnsafeReadMsg, UnsafeWriteMsg}]_vars

\* edit_file was refused a path into a sibling directory whose name begins
\* with the root's, after a call that wrote a file.
C16_Witness ==
    /\ CalledWith(trace, "../repo2/notes.txt")
    /\ trace[1] = Ev("call", "edit_file", 0)
    /\ trace[Len(trace)] = Ev("file_failed", UnsafeReadMsg, 0)
    /\ calc = "fixed" /\ steps >= 2

\* C21: a report handled while there is no active bug adds exactly one bug
\* record, empty but for its user_report, which is the message as it was
\* added to the conversation; makes it the active bug; adds one agent turn,
\* the clarifying questions; and reads or writes no file, runs no analysis
\* and asks for no permission.
C21_FirstReportOnlyClarifies ==
    [][(active_bug_id = 0 /\ MessageCall(trace')) =>
          /\ bugs' = Append(bugs, BugRecord(bug_counter + 1,
                                            appended'[Len(appended) + 1].content))
          /\ appended'[Len(appended) + 1].role = "user"
          /\ active_bug_id' = bug_counter + 1
          /\ Cardinality(TurnsOf(trace', "clarifying")) = 1
          /\ Cardinality(Effects(trace', "turn")) = 2
          /\ \A k \in {"read", "write", "diff", "unsafe", "request", "exec", "prompt"} :
                Effects(trace', k) = {}
          /\ UNCHANGED <<calc, test, pending, last_decision>>]_vars

\* The first report of a web session, kept with its surrounding blanks, was
\* answered with the clarifying questions after an earlier run-tests.
C21_Witness ==
    /\ TurnsOf(trace, "clarifying") # {}
    /\ steps >= 2
    /\ Len(bugs) = 1 /\ bugs[1].user_report.pad > 0 /\ active_bug_id = 1

\* C23 (as claimed): after an add_turn the turn it appended is the last of
\* the live turns, so turns is not empty.
C23_AppendedTurnStaysLive ==
    appended # <<>> =>
        (turns # <<>> /\ turns[Len(turns)] = appended[Len(appended)])

\* C24: between two calls of a web session no approval is stored, and a
\* decision is stored only while a request is pending; the decision is
\* recorded by a permission_respond that carries the pending request's id and
\* the request stays attached, unchanged, as long as the decision is stored.
C24_StoredDecisionHasPending ==
    [][/\ last_decision' # "approved"
       /\ last_decision' # "none" =>
             /\ pending' # NoPending
             /\ pending' = pending
             /\ last_decision = "none" =>
                   (RespondCall(trace') /\ trace'[1].n = pending'.request_id)]_vars

\* A denial is stored for the second request of a session whose first
\* request was approved and run.
C24_Witness ==
    /\ mode = "web" /\ last_decision = "denied"
    /\ pending # NoPending /\ pending.request_id = 2
    /\ \E i \in DOMAIN appended :
          appended[i].content.text \in {"test_results_PASS", "test_results_FAIL"}

\* C25: no step resets active_bug_id once it is set; the store never holds
\* more than one bug record; and a report handled while a bug is active adds
\* no record and goes to the analysis of the active bug, which reads
\* calculator.py and answers with one of the analysis messages.
C25_ActiveBugNeverReset ==
    [][/\ active_bug_id # 0 => active_bug_id' = active_bug_id
       /\ Len(bugs') <= 1
       /\ (active_bug_id # 0 /\ MessageCall(trace')) =>
             /\ Len(bugs') = Len(bugs)
             /\ bugs'[1].bug_id = active_bug_id
             /\ TurnsOf(trace', "clarifying") = {}
             /\ \E i \in Effects(trace', "read") : trace'[i].arg = calc_rel
             /\ \E i \in Effects(trace', "turn") :
                   trace'[i].arg \in {"could_not_read", "unable", "analysis"}]_vars

\* A report was analysed for the one bug of the session after its tests had
\* passed and the final summary was given.
C25_Witness ==
    /\ MessageCall(trace) /\ Len(bugs) = 1 /\ active_bug_id = 1
    /\ \E i \in DOMAIN appended : appended[i].content.text = "final_summary"

\* The request ids an approving permission_respond recorded a decision for.
ApprovedIds(tr) == {tr[i].n : i \in Effects(tr, "approved")}

\* C22 (as claimed): with the web calls of a session overlapping at the
\* single reads and writes of pending and last_decision, request() returns
\* true at most once for each approved request_id and the command is started
\* at most once for each.
C22_OneRunPerApprovedId ==
    /\ Cardinality(Granted(trace)) <= Cardinality(ApprovedIds(trace))
    /\ Cardinality(Effects(trace, "exec")) <= Cardinality(ApprovedIds(trace))

====
